---- MODULE Spec2Model ----
(***************************************************************************)
(* Model of InMemoryFakeAgentManager                                       *)
(* (demo/ui/service/server/in_memory_manager.py) and of get_agent_card     *)
(* (demo/ui/utils/agent_card.py).                                          *)
(*                                                                         *)
(* The manager runs on a single-threaded asyncio loop: the code between    *)
(* two awaits is one atomic step.  process_message has at most one await   *)
(* (the model completion on line 139 or the task-send on line 172), so a   *)
(* submission is an atomic intake step followed, when it awaited, by an    *)
(* atomic continuation that runs to the end of the method.                 *)
(*                                                                         *)
(* Optional values (Python None) are sequences of length 0 or 1.           *)
(***************************************************************************)
EXTENDS Integers, Sequences, FiniteSets, TLC

\* ---------------------------------------------------------------- bounds
MaxSubs == 2      \* messages handed to sanitize_message / process_message
MaxAgents == 2    \* successful register_agent calls
MaxConvs == 1     \* create_conversation calls
MaxTasks == 3     \* direct add_task calls, and the task ids they use

Subs == 1..MaxSubs

None == <<>>
Some(x) == <<x>>
Truthy(seq) == seq /= <<>>          \* Python truthiness of an Optional / a list
Val(o) == o[1]
Last(s) == s[Len(s)]

\* ------------------------------------------------------------ data types
\* A text is a format string of the source with the value interpolated in it.
Txt(fmt, arg) == [fmt |-> fmt, arg |-> arg]

TextPart(t) == [type |-> "text", text |-> t]
DataPart(d) == [type |-> "data", data |-> d]

\* common.types.Message: role, parts, metadata (Optional dict).
Message(role, parts, metadata) ==
    [role |-> role, parts |-> parts, metadata |-> metadata]

\* A metadata dict is a function from its keys to values.
EmptyDict == [k \in {} |-> 0]
Dict1(k, v) == [x \in {k} |-> v]
\* Variant: on a key in both, the value of the first dict is kept.
MergeDictLeft(a, b) == [k \in (DOMAIN a) \cup (DOMAIN b) |-> IF k \in DOMAIN a THEN a[k] ELSE b[k]]

\* {**a, **b}: b wins on key collision.
MergeDict(a, b) == [k \in (DOMAIN a) \cup (DOMAIN b) |-> IF k \in DOMAIN b THEN b[k] ELSE a[k]]

JSONRPCError(code, message) == [code |-> code, message |-> message]

InternalErrorCode == 0 - 32603

\* An id that no conversation has (a stale or foreign conversation id).
UnknownConversation == 999

\* ------------------------------------------------------------- variables
VARIABLES
    conversations,   \* _conversations: list of [conversation_id, is_active, messages]
    messages,        \* _messages
    tasks,           \* _tasks
    events,          \* _events
    pending,         \* _pending_message_ids
    agents,          \* _agents
    task_map,        \* _task_map: dict message_id -> task_id
    llm,             \* _llm is not None
    uuids,           \* number of uuid4() values drawn so far
    subs,            \* the process_message coroutines and their locals
    calls,           \* collaborator calls made: [sub, kind, target]
    reg,             \* the last register_agent call: whether discovery failed,
                     \* the exception raised, len(_agents) before the call
    upd              \* the task passed to the last direct update_task call

vars == <<conversations, messages, tasks, events, pending, agents, task_map,
          llm, uuids, subs, calls, reg, upd>>

\* uuid.uuid4() is modelled by a counter: the k-th value drawn in a step that
\* starts with n values drawn is n + k, so distinct draws are distinct.

\* ------------------------------------------------------------ task types
\* common.types.TaskState, the members the manager uses.
TaskState ==
    [SUBMITTED |-> "submitted", COMPLETED |-> "completed",
     INPUT_REQUIRED |-> "input-required", ERROR |-> "error"]

\* Variant: a task starts out as working whatever state is asked for.
TaskStatusWorking(state, message) == [state |-> "working", message |-> message, error |-> None]

TaskStatus(state, message) == [state |-> state, message |-> message, error |-> None]

Task(id, sessionId, status, history) ==
    [id |-> id, sessionId |-> sessionId, status |-> status,
     history |-> history, artifacts |-> None]

Event(id, actor, content) == [id |-> id, actor |-> actor, content |-> content]

Conversation(conversation_id) ==
    [conversation_id |-> conversation_id, is_active |-> TRUE, messages |-> <<>>]

\* --------------------------------------------------- agent-card discovery
\* An address as typed by the user: an optional scheme and a host.
Addresses == {[scheme |-> "", host |-> "alpha"], [scheme |-> "https://", host |-> "beta"]}

\* What the network does with the GET of /.well-known/agent.json.
DiscoveryOutcomes ==
    {"ok", "ok_no_url", "timeout", "refused", "http_error", "bad_json", "bad_card"}

DiscoveryFailures == DiscoveryOutcomes \ {"ok", "ok_no_url"}

\* The outcomes used when several submissions are in flight.
CommonDiscovery == {"ok", "timeout", "refused"}

\* base_url of get_agent_card with the trailing slash stripped again.
BaseUrl(address) ==
    [scheme |-> IF address.scheme = "" THEN "http://" ELSE address.scheme,
     host |-> address.host]

AgentCard(name, url) == [name |-> name, url |-> url]

\* Variant: a payload that fails validation is accepted as a card.
get_agent_card_unvalidated(address, outcome) ==
    IF outcome \in {"ok", "ok_no_url", "bad_card"}
    THEN [raised |-> None, card |-> Some(AgentCard(address.host, Some(BaseUrl(address))))]
    ELSE [raised |-> Some("ValueError"), card |-> None]

\* get_agent_card: the card, or the exception that leaves the function.
get_agent_card(address, outcome) ==
    CASE outcome = "ok" ->
           [raised |-> None,
            card |-> Some(AgentCard(address.host, Some([scheme |-> "https://", host |-> address.host])))]
      [] outcome = "ok_no_url" ->
           [raised |-> None, card |-> Some(AgentCard(address.host, Some(BaseUrl(address))))]
      [] outcome = "timeout" -> [raised |-> Some("ValueError"), card |-> None]
      \* requests.get raised, so `response` is unbound on line 48
      [] outcome = "refused" -> [raised |-> Some("UnboundLocalError"), card |-> None]
      [] outcome = "http_error" -> [raised |-> Some("ValueError"), card |-> None]
      [] outcome = "bad_json" -> [raised |-> Some("ValueError"), card |-> None]
      [] outcome = "bad_card" -> [raised |-> Some("ValueError"), card |-> None]

\* ------------------------------------------------------------- the store
Store ==
    [conversations |-> conversations, messages |-> messages, tasks |-> tasks,
     events |-> events, pending |-> pending, task_map |-> task_map, uuids |-> uuids]

\* get_conversation: index of the first conversation with that id, 0 for None.
\* Variant: a message that names no stored conversation goes to the first one.
get_conversation_default(convs, conversation_id) ==
    IF Truthy(conversation_id)
       /\ \E i \in 1..Len(convs) : convs[i].conversation_id = Val(conversation_id)
    THEN CHOOSE i \in 1..Len(convs) :
           /\ convs[i].conversation_id = Val(conversation_id)
           /\ \A j \in 1..(i - 1) : convs[j].conversation_id /= Val(conversation_id)
    ELSE IF convs = <<>> THEN 0 ELSE 1

get_conversation(convs, conversation_id) ==
    IF ~Truthy(conversation_id) THEN 0
    ELSE IF \E i \in 1..Len(convs) : convs[i].conversation_id = Val(conversation_id)
         THEN CHOOSE i \in 1..Len(convs) :
                /\ convs[i].conversation_id = Val(conversation_id)
                /\ \A j \in 1..(i - 1) : convs[j].conversation_id /= Val(conversation_id)
         ELSE 0

\* conversation.messages.append(m) when a conversation was resolved.
AppendToConversation(convs, c, m) ==
    IF c = 0 THEN convs
    ELSE [convs EXCEPT ![c].messages = Append(@, m)]

add_task(ts, task) == Append(ts, task)

\* Variant: the task is inserted in front of the stored one (list.insert).
update_task_insert(ts, task) ==
    IF \E i \in 1..Len(ts) : ts[i].id = task.id
    THEN LET i == CHOOSE i \in 1..Len(ts) :
                    /\ ts[i].id = task.id
                    /\ \A j \in 1..(i - 1) : ts[j].id /= task.id
         IN SubSeq(ts, 1, i - 1) \o <<task>> \o SubSeq(ts, i, Len(ts))
    ELSE ts

\* Variant: a task with no stored match is added (an upsert).
update_task_upsert(ts, task) ==
    IF \E i \in 1..Len(ts) : ts[i].id = task.id
    THEN LET i == CHOOSE i \in 1..Len(ts) :
                    /\ ts[i].id = task.id
                    /\ \A j \in 1..(i - 1) : ts[j].id /= task.id
         IN [ts EXCEPT ![i] = task]
    ELSE Append(ts, task)

\* update_task: replace the first stored task with the same id, else nothing.
update_task(ts, task) ==
    IF \E i \in 1..Len(ts) : ts[i].id = task.id
    THEN LET i == CHOOSE i \in 1..Len(ts) :
                    /\ ts[i].id = task.id
                    /\ \A j \in 1..(i - 1) : ts[j].id /= task.id
         IN [ts EXCEPT ![i] = task]
    ELSE ts

\* Variant: the id is left in the pending list.
RemoveNone(s, x) == s

\* Variant: the last pending id is dropped (pop()), whichever message it names.
RemoveLast(s, x) == SubSeq(s, 1, Len(s) - 1)

\* list.remove(x): drops the first occurrence (raises when absent).
RemoveFirst(s, x) ==
    LET i == CHOOSE i \in 1..Len(s) : s[i] = x /\ \A j \in 1..(i - 1) : s[j] /= x
    IN SubSeq(s, 1, i - 1) \o SubSeq(s, i + 1, Len(s))

Contains(s, x) == \E i \in 1..Len(s) : s[i] = x

\* The stored task object with that id (the coroutine's local `task`).
TaskById(ts, id) == ts[CHOOSE i \in 1..Len(ts) : ts[i].id = id]

\* Variant: an id already present in the metadata is kept (setdefault).
sanitize_keep_id(message, id) ==
    LET md == IF ~Truthy(message.metadata) THEN EmptyDict ELSE Val(message.metadata)
    IN [message EXCEPT !.metadata = Some(MergeDict(Dict1("message_id", id), md))]

\* sanitize_message (lines 89-93).
sanitize_message(message, id) ==
    LET md == IF ~Truthy(message.metadata) \/ Val(message.metadata) = EmptyDict
              THEN EmptyDict ELSE Val(message.metadata)
    IN [message EXCEPT !.metadata = Some(MergeDict(md, Dict1("message_id", id)))]

MessageId(message) == Val(message.metadata)["message_id"]

\* process_message lines 96-126: intake and task creation.
Intake(S, message) ==
    LET md == Val(message.metadata)
        message_id == md["message_id"]
        conversation_id ==
            IF "conversation_id" \in DOMAIN md THEN Some(md["conversation_id"]) ELSE None
        conversation == get_conversation(S.conversations, conversation_id)
        event_id == S.uuids + 1
        task_id == S.uuids + 2
        task == Task(task_id, conversation_id,
                     TaskStatus(TaskState.SUBMITTED, Some(message)), <<message>>)
    IN [store |->
            [conversations |-> AppendToConversation(S.conversations, conversation, message),
             messages |-> Append(S.messages, message),
             tasks |-> add_task(S.tasks, task),
             events |-> Append(S.events, Event(event_id, "host", message)),
             pending |-> Append(S.pending, message_id),
             task_map |-> MergeDict(S.task_map, Dict1(message_id, task_id)),
             uuids |-> S.uuids + 2],
        message_id |-> message_id, task_id |-> task_id,
        conversation_id |-> conversation_id, conversation |-> conversation]

\* The outcome of routing: the response and what was written to task.status
\* and task.artifacts on the way (error None: task.status.error not assigned;
\* set_artifacts FALSE: task.artifacts not assigned).
Routed(response, state, error, set_artifacts, artifacts) ==
    [response |-> response, state |-> state, error |-> error,
     set_artifacts |-> set_artifacts, artifacts |-> artifacts]

AgentText(t) == Message("agent", <<TextPart(t)>>, None)

\* process_message lines 256-266: the safety net for a missing response.
SafetyNet(routed) ==
    IF Truthy(routed.response) THEN routed
    ELSE Routed(Some(AgentText(Txt("Sorry, I encountered an internal error processing your request.", ""))),
                TaskState.ERROR,
                Some(JSONRPCError(InternalErrorCode,
                                  Txt("Internal error: No response generated.", ""))),
                FALSE, None)

\* process_message lines 268-283: reconciliation.
Reconcile(S, message, task_id, conversation, routed0) ==
    LET routed == SafetyNet(routed0)
        task0 == TaskById(S.tasks, task_id)
        task1 == [task0 EXCEPT
                    !.status.state = routed.state,
                    !.status.error = IF Truthy(routed.error) THEN routed.error ELSE @,
                    !.artifacts = IF routed.set_artifacts THEN routed.artifacts ELSE @]
        response == [Val(routed.response) EXCEPT
                       !.metadata = Some(MergeDict(Val(message.metadata),
                                                   Dict1("message_id", S.uuids + 1)))]
        event_id == S.uuids + 2
        task2 == [task1 EXCEPT !.history = Append(@, response)]
    IN [store |->
            [conversations |-> AppendToConversation(S.conversations, conversation, response),
             messages |-> S.messages,
             tasks |-> update_task(S.tasks, task2),
             events |-> Append(S.events, Event(event_id, "agent", response)),
             pending |-> RemoveFirst(S.pending, MessageId(message)),
             task_map |-> S.task_map,
             uuids |-> S.uuids + 2],
        response |-> response]

\* ---------------------------------------------------------------- routing
\* Variant: with no agent and no model client nothing is answered.
NoModelRouteSilent == Routed(None, TaskState.SUBMITTED, None, FALSE, None)

\* Lines 149-153: no agent and no model client.
NoModelRoute ==
    Routed(Some(AgentText(Txt("No agents are currently registered or available.", ""))),
           TaskState.COMPLETED, None, FALSE, None)

\* What the model completion does: a text, or a raised fault.
LlmOutcomes ==
    {[raised |-> None, content |-> "polite notice"],
     [raised |-> Some("APIConnectionError"), content |-> ""]}

\* Lines 137-148: the model completion returned or raised.
LlmRoute(o) ==
    IF ~Truthy(o.raised)
    THEN Routed(Some(AgentText(Txt("{llm_response.content}", o.content))),
                TaskState.COMPLETED, None, FALSE, None)
    ELSE Routed(Some(AgentText(Txt("Sorry, no agents are registered and I encountered an error trying to generate a specific response.", ""))),
                TaskState.ERROR,
                Some(JSONRPCError(InternalErrorCode,
                                  Txt("Internal error during LLM fallback: {e}", Val(o.raised)))),
                FALSE, None)

\* Lines 207-220: the first TextPart, artifacts in order, parts in order.
RECURSIVE AllParts(_)
AllParts(artifacts) ==
    IF artifacts = <<>> THEN <<>>
    ELSE Head(artifacts).parts \o AllParts(Tail(artifacts))

\* Variant: only the parts of the first artifact are scanned.
FirstTextPartOfHead(artifacts) ==
    LET ps == Head(artifacts).parts
    IN IF \E i \in 1..Len(ps) : ps[i].type = "text"
       THEN Some(ps[CHOOSE i \in 1..Len(ps) :
                      /\ ps[i].type = "text"
                      /\ \A j \in 1..(i - 1) : ps[j].type /= "text"])
       ELSE None

FirstTextPart(artifacts) ==
    LET ps == AllParts(artifacts)
    IN IF \E i \in 1..Len(ps) : ps[i].type = "text"
       THEN Some(ps[CHOOSE i \in 1..Len(ps) :
                      /\ ps[i].type = "text"
                      /\ \A j \in 1..(i - 1) : ps[j].type /= "text"])
       ELSE None

\* Lines 174-179: a protocol-level error was received.
ErrorBranch(task_response) ==
    Routed(Some(AgentText(Txt("Error communicating with agent: {task_response.error.message}",
                              Val(task_response.error).message.fmt))),
           TaskState.ERROR, task_response.error, FALSE, None)

\* Variant: the status message is used but the task is closed as COMPLETED.
InputRequiredClosed(task_result) ==
    Routed(Some([Val(task_result.status.message) EXCEPT !.role = "agent"]),
           TaskState.COMPLETED, None, TRUE, task_result.artifacts)

\* Lines 185-193: INPUT_REQUIRED with a status message.
InputRequiredBranch(task_result) ==
    Routed(Some([Val(task_result.status.message) EXCEPT !.role = "agent"]),
           TaskState.INPUT_REQUIRED, None, TRUE, task_result.artifacts)

\* Variant: the first history entry is used instead of the last.
HistoryBranchFirst(task_result) ==
    Routed(Some(Head(task_result.history)),
           TaskState.COMPLETED, None, TRUE, task_result.artifacts)

\* Lines 197-202: a non-empty history.
HistoryBranch(task_result) ==
    Routed(Some(Last(task_result.history)),
           TaskState.COMPLETED, None, TRUE, task_result.artifacts)

\* Lines 204-227: non-empty artifacts.
ArtifactsBranch(task_result) ==
    LET part == FirstTextPart(Val(task_result.artifacts)) IN
    IF Truthy(part)
    THEN Routed(Some(Message("agent", <<Val(part)>>, None)),
                TaskState.COMPLETED, None, TRUE, task_result.artifacts)
    ELSE Routed(Some(AgentText(Txt("Agent returned data, but not in a displayable text format.", ""))),
                TaskState.COMPLETED, None, TRUE, task_result.artifacts)

\* Variant: the history is looked at before the INPUT_REQUIRED status message.
InterpretHistoryFirst(task_response) ==
    IF Truthy(task_response.error)
    THEN ErrorBranch(task_response)
    ELSE IF Truthy(task_response.result)
    THEN LET task_result == Val(task_response.result) IN
         IF Truthy(task_result.history)
         THEN HistoryBranch(task_result)
         ELSE IF /\ task_result.status.state = TaskState.INPUT_REQUIRED
                 /\ Truthy(task_result.status.message)
         THEN InputRequiredBranch(task_result)
         ELSE IF Truthy(task_result.artifacts) /\ Truthy(Val(task_result.artifacts))
         THEN ArtifactsBranch(task_result)
         ELSE Routed(Some(AgentText(Txt("Agent processed the request but returned no messages or artifacts.", ""))),
                     TaskState.COMPLETED, None, FALSE, None)
    ELSE Routed(Some(AgentText(Txt("Agent processed the request but did not return a valid result structure.", ""))),
                TaskState.COMPLETED, None, FALSE, None)

\* Lines 174-240: interpretation of the task-send response, first match wins.
InterpretResponse(task_response) ==
    IF Truthy(task_response.error)
    THEN ErrorBranch(task_response)
    ELSE IF Truthy(task_response.result)
    THEN LET task_result == Val(task_response.result) IN
         IF /\ task_result.status.state = TaskState.INPUT_REQUIRED
            /\ Truthy(task_result.status.message)
         THEN InputRequiredBranch(task_result)
         ELSE IF Truthy(task_result.history)
         THEN HistoryBranch(task_result)
         ELSE IF Truthy(task_result.artifacts) /\ Truthy(Val(task_result.artifacts))
         THEN ArtifactsBranch(task_result)
         ELSE Routed(Some(AgentText(Txt("Agent processed the request but returned no messages or artifacts.", ""))),
                     TaskState.COMPLETED, None, FALSE, None)
    ELSE Routed(Some(AgentText(Txt("Agent processed the request but did not return a valid result structure.", ""))),
                TaskState.COMPLETED, None, FALSE, None)

\* Variant: the response is produced but the task state is left as it was.
AgentFaultStateKept(e) ==
    Routed(Some(AgentText(Txt("Failed to communicate with the registered agent: {e}", e))),
           TaskState.SUBMITTED,
           Some(JSONRPCError(InternalErrorCode, Txt("Internal error sending to agent: {e}", e))),
           FALSE, None)

\* Lines 242-252: send_task (or anything in the try block) raised e.
AgentFault(e) ==
    Routed(Some(AgentText(Txt("Failed to communicate with the registered agent: {e}", e))),
           TaskState.ERROR,
           Some(JSONRPCError(InternalErrorCode, Txt("Internal error sending to agent: {e}", e))),
           FALSE, None)

\* Lines 159-252: what routing to an agent yields for an outcome of send_task.
AgentRoute(o) ==
    IF Truthy(o.raised) THEN AgentFault(Val(o.raised)) ELSE InterpretResponse(o.response)

\* get_pending_messages (lines 307-326), a read-only accessor.  The `return rval` on line 325 is in
\* the body of the for loop, so the loop ends in its first iteration.
get_pending_messages ==
    IF pending = <<>> THEN pending
    ELSE LET message_id == pending[1] IN
         IF message_id \in DOMAIN task_map
         THEN LET task_id == task_map[message_id] IN
              IF ~\E i \in 1..Len(tasks) : tasks[i].id = task_id
              THEN << <<message_id, Txt("", "")>> >>
              ELSE LET task == TaskById(tasks, task_id) IN
                   IF Truthy(task.history) /\ Truthy(Last(task.history).parts)
                   THEN IF Len(task.history) = 1
                        THEN << <<message_id, Txt("Working...", "")>> >>
                        ELSE LET part == Last(task.history).parts[1] IN
                             << <<message_id,
                                  IF part.type = "text" THEN part.text
                                  ELSE Txt("Working...", "")>> >>
                   ELSE <<>>
         ELSE << <<message_id, Txt("", "")>> >>

\* Lines 310-323: the loop body of get_pending_messages, run for message_id,
\* gets to the arm that reads the first part of the task's last history entry.
ReportsResponseText(message_id) ==
    /\ message_id \in DOMAIN task_map
    /\ \E i \in 1..Len(tasks) : tasks[i].id = task_map[message_id]
    /\ LET task == TaskById(tasks, task_map[message_id]) IN
         /\ Truthy(task.history) /\ Truthy(Last(task.history).parts)
         /\ Len(task.history) /= 1

\* ----------------------------------------------------------------- inputs
UserParts ==
    {<<>>, <<TextPart(Txt("{user text}", "hello"))>>, <<DataPart("form")>>}

\* Metadata of a message before sanitize_message: absent, naming an existing
\* conversation, or naming no conversation and carrying a stale message id.
UserMetadata ==
    {None,
     Some([k \in {"conversation_id", "message_id"} |->
              IF k = "conversation_id" THEN UnknownConversation ELSE 0])}
    \cup {Some(Dict1("conversation_id", conversations[c].conversation_id)) :
             c \in 1..Len(conversations)}

UserMessages == {Message("user", p, m) : p \in UserParts, m \in UserMetadata}

\* The messages used when several submissions are in flight: a text for the
\* first conversation (or with no metadata when there is none), and a form
\* that names no conversation and carries a stale message id.
CommonMessages ==
    {m \in UserMessages :
        \/ /\ m.parts /= <<>> /\ m.parts[1].type = "text"
           /\ IF conversations = <<>> THEN m.metadata = None
              ELSE m.metadata = Some(Dict1("conversation_id", conversations[1].conversation_id))
        \/ /\ m.parts /= <<>> /\ m.parts[1].type = "data"
           /\ Truthy(m.metadata) /\ "message_id" \in DOMAIN Val(m.metadata)}

StatusMessages ==
    {None, Some(Message("user", <<TextPart(Txt("{agent text}", "which city?"))>>, None))}

Histories ==
    {<<>>,
     <<Message("user", <<TextPart(Txt("{user text}", "hello"))>>, None)>>,
     <<Message("user", <<TextPart(Txt("{user text}", "hello"))>>, None),
       Message("agent", <<TextPart(Txt("{agent text}", "answer"))>>, None)>>}

Artifact(name, parts) == [name |-> name, parts |-> parts]

ArtifactLists ==
    {None,
     Some(<<>>),
     Some(<<Artifact("chart", <<DataPart("png")>>)>>),
     Some(<<Artifact("empty", <<>>),
            Artifact("mixed", <<DataPart("json"), TextPart(Txt("{agent text}", "first")),
                                TextPart(Txt("{agent text}", "second"))>>),
            Artifact("late", <<TextPart(Txt("{agent text}", "third"))>>)>>)}

TaskResults ==
    {[status |-> [state |-> st, message |-> sm], history |-> h, artifacts |-> a] :
        st \in {TaskState.COMPLETED, TaskState.INPUT_REQUIRED},
        sm \in StatusMessages, h \in Histories, a \in ArtifactLists}

ProtocolErrors == {None, Some(JSONRPCError(0 - 32001, Txt("Task not found", "")))}

SendTaskResponse(error, result) == [error |-> error, result |-> result]

Returned(r) == [raised |-> None, response |-> r]
Raised(e) == [raised |-> Some(e), response |-> SendTaskResponse(None, None)]

\* Every outcome of client.send_task the model considers.
AgentOutcomes ==
    {Raised("ConnectError")}
    \cup {Returned(SendTaskResponse(e, r)) :
             e \in ProtocolErrors, r \in {None} \cup {Some(t) : t \in TaskResults}}

\* The outcomes used when several submissions are in flight.
CommonOutcomes ==
    {o \in AgentOutcomes :
        \/ Truthy(o.raised)
        \/ /\ ~Truthy(o.raised)
           /\ \/ Truthy(o.response.error) /\ ~Truthy(o.response.result)
              \/ /\ ~Truthy(o.response.error) /\ Truthy(o.response.result)
                 /\ Val(o.response.result).history /= <<>>
                 /\ Len(Val(o.response.result).history) = 2
                 /\ Val(o.response.result).artifacts = Some(<<Artifact("chart", <<DataPart("png")>>)>>)
                 /\ Truthy(Val(o.response.result).status.message)}

\* ---------------------------------------------------------------- actions
NoMessage == Message("user", <<>>, None)

NewSub ==
    [pc |-> "new", message |-> NoMessage, message_id |-> 0, task_id |-> 0,
     conversation |-> 0, target |-> None, outcome |-> None, response |-> None,
     raised |-> None]

Init ==
    /\ conversations = <<>>
    /\ messages = <<>>
    /\ tasks = <<>>
    /\ events = <<>>
    /\ pending = <<>>
    /\ agents = <<>>
    /\ task_map = EmptyDict
    /\ llm \in BOOLEAN
    /\ uuids = 0
    /\ subs = [i \in Subs |-> NewSub]
    /\ calls = [i \in Subs |-> <<>>]
    /\ reg = [failed |-> FALSE, raised |-> None, before |-> 0]
    /\ upd = None

SetStore(S) ==
    /\ conversations' = S.conversations
    /\ messages' = S.messages
    /\ tasks' = S.tasks
    /\ events' = S.events
    /\ pending' = S.pending
    /\ task_map' = S.task_map
    /\ uuids' = S.uuids

\* create_conversation (lines 83-87).
CreateConversation ==
    /\ Len(conversations) < MaxConvs
    /\ conversations' = Append(conversations, Conversation(uuids + 1))
    /\ uuids' = uuids + 1
    /\ UNCHANGED <<messages, tasks, events, pending, agents, task_map, llm, subs,
                   calls, reg, upd>>

\* register_agent (lines 328-332): get_agent_card raises, or the card is stored.
RegisterAgent(url, outcome) ==
    LET r == get_agent_card(url, outcome) IN
    /\ reg' = [failed |-> outcome \in DiscoveryFailures, raised |-> r.raised,
                before |-> Len(agents)]
    /\ IF Truthy(r.raised)
       THEN agents' = agents
       ELSE /\ Len(agents) < MaxAgents
            /\ LET agent_data == Val(r.card) IN
               agents' = Append(agents,
                                IF ~Truthy(agent_data.url)
                                THEN [agent_data EXCEPT !.url = Some(url)]
                                ELSE agent_data)
    /\ UNCHANGED <<conversations, messages, tasks, events, pending, task_map, llm,
                   uuids, subs, calls, upd>>

\* The caller builds a message and passes it through sanitize_message.
SanitizeWith(i, raws) ==
    /\ subs[i].pc = "new"
    /\ \A j \in 1..(i - 1) : subs[j].pc /= "new"
    /\ \E raw \in raws :
         subs' = [subs EXCEPT ![i].pc = "sanitized",
                              ![i].message = sanitize_message(raw, uuids + 1)]
    /\ uuids' = uuids + 1
    /\ UNCHANGED <<conversations, messages, tasks, events, pending, agents, task_map,
                   llm, calls, reg, upd>>

Sanitize(i) == SanitizeWith(i, CommonMessages)

SanitizeAny(i) == SanitizeWith(i, UserMessages)

\* Line 135 reads message.parts[0].text: only a TextPart has that attribute.
LogLineRaises(message) ==
    Truthy(message.parts) /\ message.parts[1].type /= "text"

\* Variant: the most recently registered agent is taken.
TargetAgentLast(registered) == registered[Len(registered)]

\* Line 156: the agent a submission is routed to.
TargetAgent(registered) == registered[1]

\* process_message from its call to its first await, or to its end when it
\* does not await (lines 96-172).
Submit(i) ==
    LET message == subs[i].message
        in == Intake(Store, message)
        started == [subs[i] EXCEPT !.message_id = in.message_id,
                                   !.task_id = in.task_id,
                                   !.conversation = in.conversation]
    IN
    /\ subs[i].pc = "sanitized"
    /\ IF agents = <<>>
       THEN IF LogLineRaises(message)
            THEN /\ SetStore(in.store)
                 /\ subs' = [subs EXCEPT ![i] = [started EXCEPT !.pc = "raised",
                                                   !.raised = Some("AttributeError")]]
                 /\ calls' = calls
            ELSE IF llm
            THEN /\ SetStore(in.store)
                 /\ subs' = [subs EXCEPT ![i] = [started EXCEPT !.pc = "llm"]]
                 /\ calls' = [calls EXCEPT ![i] = Append(@, [kind |-> "llm", target |-> None])]
            ELSE LET out == Reconcile(in.store, message, in.task_id, in.conversation,
                                      NoModelRoute) IN
                 /\ SetStore(out.store)
                 /\ subs' = [subs EXCEPT ![i] = [started EXCEPT !.pc = "done",
                                                   !.response = Some(out.response)]]
                 /\ calls' = calls
       ELSE LET target_agent == TargetAgent(agents) IN
            /\ SetStore(in.store)
            /\ subs' = [subs EXCEPT ![i] = [started EXCEPT !.pc = "agent",
                                              !.target = Some(target_agent)]]
            /\ calls' = [calls EXCEPT ![i] = Append(@, [kind |-> "agent",
                                                         target |-> Some(target_agent)])]
    /\ UNCHANGED <<agents, llm, reg, upd>>

\* The continuation after the awaited collaborator call (to line 283).
Resume(i, o, routed) ==
    LET out == Reconcile(Store, subs[i].message, subs[i].task_id, subs[i].conversation,
                         routed) IN
    /\ SetStore(out.store)
    /\ subs' = [subs EXCEPT ![i].pc = "done", ![i].outcome = Some(o),
                            ![i].response = Some(out.response)]
    /\ UNCHANGED <<agents, llm, calls, reg, upd>>

\* Variant: when the completion returns and an agent has been registered in
\* the meantime, the submission is sent to that agent as well.
LlmReturnsRetry(i) ==
    /\ subs[i].pc = "llm"
    /\ IF agents = <<>>
       THEN \E o \in LlmOutcomes : Resume(i, o, LlmRoute(o))
       ELSE /\ subs' = [subs EXCEPT ![i].pc = "agent",
                                    ![i].target = Some(TargetAgent(agents))]
            /\ calls' = [calls EXCEPT ![i] = Append(@, [kind |-> "agent",
                                                         target |-> Some(TargetAgent(agents))])]
            /\ UNCHANGED <<conversations, messages, tasks, events, pending, agents,
                           task_map, llm, uuids, reg, upd>>

\* self._llm.ainvoke returns or raises (lines 139-148).
LlmReturns(i) ==
    /\ subs[i].pc = "llm"
    /\ \E o \in LlmOutcomes : Resume(i, o, LlmRoute(o))

\* client.send_task returns or raises (lines 172-252).
AgentReturnsWith(i, outcomes) ==
    /\ subs[i].pc = "agent"
    /\ \E o \in outcomes : Resume(i, o, AgentRoute(o))

AgentReturns(i) == AgentReturnsWith(i, CommonOutcomes)

AgentReturnsAny(i) == AgentReturnsWith(i, AgentOutcomes)

\* Tasks a caller of add_task / update_task passes: three ids, as created
\* (SUBMITTED, history of one message) or as reconciled.
TaskArguments ==
    {Task(id, None, TaskStatus(st, None), <<NoMessage>>) :
        id \in 1..MaxTasks, st \in {TaskState.SUBMITTED, TaskState.COMPLETED}}

\* A caller adds a task (add_task, lines 285-286).
AddTask(task) ==
    /\ Len(tasks) < MaxTasks
    /\ tasks' = add_task(tasks, task)
    /\ UNCHANGED <<conversations, messages, events, pending, agents, task_map, llm,
                   uuids, subs, calls, reg, upd>>

\* A caller updates a task (update_task, lines 288-292).
UpdateTask(task) ==
    /\ tasks' = update_task(tasks, task)
    /\ upd' = Some(task)
    /\ UNCHANGED <<conversations, messages, events, pending, agents, task_map, llm,
                   uuids, subs, calls, reg>>

Register == \E url \in Addresses, outcome \in CommonDiscovery : RegisterAgent(url, outcome)

RegisterAny == \E url \in Addresses, outcome \in DiscoveryOutcomes : RegisterAgent(url, outcome)

Next ==
    \/ CreateConversation
    \/ Register
    \/ \E i \in Subs : Sanitize(i)
    \/ \E i \in Subs : Submit(i)
    \/ \E i \in Subs : LlmReturns(i)
    \/ \E i \in Subs : AgentReturns(i)

Spec == Init /\ [][Next]_vars

\* One submission outside any conversation, every shape of task-send response.
NextOne ==
    \/ RegisterAny
    \/ SanitizeAny(1)
    \/ Submit(1)
    \/ LlmReturns(1)
    \/ AgentReturnsAny(1)

SpecOne == Init /\ [][NextOne]_vars

\* Every awaited collaborator call eventually returns or raises.
CallsReturn ==
    \A i \in Subs : WF_vars(LlmReturns(i)) /\ WF_vars(AgentReturns(i))

SpecFair == Init /\ [][Next]_vars /\ CallsReturn

\* The task registry on its own: add_task and update_task called directly.
NextTasks ==
    \/ \E task \in TaskArguments : AddTask(task)
    \/ \E task \in TaskArguments : UpdateTask(task)

SpecTasks == Init /\ [][NextTasks]_vars

\* ------------------------------------------------------------ properties
Started(i) == subs[i].pc \notin {"new", "sanitized"}
Resolved(i) == subs[i].pc = "done"
InFlight(i) == subs[i].pc \in {"llm", "agent"}

TaskIds == {tasks[k].id : k \in 1..Len(tasks)}

\* The stored task bound to the message of submission i.
BoundTask(i) == TaskById(tasks, task_map[MessageId(subs[i].message)])

\* C1: once process_message has returned for a message, the message's id is
\* not in the pending list and the stored task bound to it has the history
\* [triggering message, response], whatever other submissions and
\* registrations were interleaved with it.
C1_ResolvedSubmission ==
    \A i \in Subs : Resolved(i) =>
        LET mid == MessageId(subs[i].message) IN
        /\ ~Contains(pending, mid)
        /\ mid \in DOMAIN task_map
        /\ task_map[mid] \in TaskIds
        /\ Len(BoundTask(i).history) = 2
        /\ BoundTask(i).history[1] = subs[i].message
        /\ BoundTask(i).history[2] = Val(subs[i].response)
        /\ Contains(messages, subs[i].message)

\* A submission has resolved while another one is still awaiting its agent.
C1_Witness ==
    \E i, j \in Subs :
        /\ Resolved(i) /\ InFlight(j)
        /\ agents /= <<>>
        /\ Len(pending) = 1

\* C2: process_message never raises, and a resolved submission has produced
\* exactly one agent-role response, in the event log and in the task history.
C2_NeverPropagates ==
    \A i \in Subs :
        /\ ~Truthy(subs[i].raised)
        /\ Resolved(i) =>
             LET response == Val(subs[i].response) IN
             /\ response.role = "agent"
             /\ Cardinality({k \in 1..Len(events) :
                               events[k].actor = "agent" /\ events[k].content = response}) = 1
             /\ Cardinality({k \in 1..Len(BoundTask(i).history) :
                               BoundTask(i).history[k] = response}) = 1

\* C3: the submitted messages have pairwise distinct ids, the tasks have
\* pairwise distinct ids, and task_map is a bijection from the ids of the
\* submitted messages onto the ids of the tasks.
C3_Bijection ==
    LET sanitized == {i \in Subs : subs[i].pc /= "new"}
        submitted == {i \in Subs : Started(i)}
        mids == {MessageId(subs[i].message) : i \in submitted}
    IN /\ \A i, j \in sanitized :
             i /= j => MessageId(subs[i].message) /= MessageId(subs[j].message)
       /\ Cardinality(mids) = Cardinality(submitted)
       /\ Len(tasks) = Cardinality(submitted)
       /\ Cardinality(TaskIds) = Len(tasks)
       /\ DOMAIN task_map = mids
       /\ {task_map[m] : m \in mids} = TaskIds
       /\ \A m, n \in mids : m /= n => task_map[m] /= task_map[n]
       /\ \A i \in submitted : task_map[MessageId(subs[i].message)] = subs[i].task_id

\* Two submissions are in flight at once, both carrying a form whose
\* metadata came with the same stale message id.
C3_Witness ==
    /\ \A i \in Subs : InFlight(i)
    /\ \A i \in Subs : LogLineRaises(subs[i].message)
    /\ Cardinality(DOMAIN task_map) = MaxSubs

\* The task-send response a resolved submission received from its agent.
ViaAgent(i) ==
    /\ Resolved(i) /\ Truthy(subs[i].target)
    /\ ~Truthy(Val(subs[i].outcome).raised)
TaskResponse(i) == Val(subs[i].outcome).response
TaskResult(i) == Val(TaskResponse(i).result)
Response(i) == Val(subs[i].response)

\* The response is the given message, stamped with the reconciled metadata.
IsStamped(response, m, i) ==
    /\ response.role = m.role
    /\ response.parts = m.parts
    /\ "message_id" \in DOMAIN Val(response.metadata)

HistoryUsed(i) ==
    /\ IsStamped(Response(i), Last(TaskResult(i).history), i)
    /\ BoundTask(i).status.state = TaskState.COMPLETED
    /\ BoundTask(i).artifacts = TaskResult(i).artifacts

\* C4 as stated: whenever the agent's result has a non-empty history, the
\* response is the last history entry, the task is COMPLETED and the task's
\* artifacts are the result's.
C4_AsStated ==
    \A i \in Subs :
        (ViaAgent(i) /\ Truthy(TaskResponse(i).result) /\ Truthy(TaskResult(i).history))
            => HistoryUsed(i)

\* C4: when the task-send response carries no protocol error and its result
\* has a non-empty history and is not INPUT_REQUIRED with a status message,
\* the response is the last history entry, the task is COMPLETED and the
\* task's artifacts are the result's.
C4_HistoryResponse ==
    \A i \in Subs :
        ( /\ ViaAgent(i)
          /\ ~Truthy(TaskResponse(i).error)
          /\ Truthy(TaskResponse(i).result)
          /\ Truthy(TaskResult(i).history)
          /\ ~(/\ TaskResult(i).status.state = TaskState.INPUT_REQUIRED
               /\ Truthy(TaskResult(i).status.message)) )
            => HistoryUsed(i)

\* A submission resolved from a two-entry history that came with artifacts.
C4_Witness ==
    \E i \in Subs :
        /\ ViaAgent(i)
        /\ ~Truthy(TaskResponse(i).error) /\ Truthy(TaskResponse(i).result)
        /\ Len(TaskResult(i).history) = 2
        /\ TaskResult(i).status.state = TaskState.COMPLETED
        /\ Truthy(TaskResult(i).artifacts) /\ Truthy(Val(TaskResult(i).artifacts))
        /\ BoundTask(i).artifacts = TaskResult(i).artifacts

StatusMessageUsed(i) ==
    /\ BoundTask(i).status.state = TaskState.INPUT_REQUIRED
    /\ Response(i).role = "agent"
    /\ Response(i).parts = Val(TaskResult(i).status.message).parts

InputRequired(i) ==
    /\ ViaAgent(i)
    /\ Truthy(TaskResponse(i).result)
    /\ TaskResult(i).status.state = TaskState.INPUT_REQUIRED
    /\ Truthy(TaskResult(i).status.message)

\* C5 as stated: whenever the agent's result is INPUT_REQUIRED with a status
\* message, the task is INPUT_REQUIRED and the response is that message as agent.
C5_AsStated == \A i \in Subs : InputRequired(i) => StatusMessageUsed(i)

\* C5: when the task-send response carries no protocol error and its result
\* is INPUT_REQUIRED with a status message, the task is INPUT_REQUIRED and
\* the response is that status message with the role agent.
C5_InputRequired ==
    \A i \in Subs :
        (InputRequired(i) /\ ~Truthy(TaskResponse(i).error)) => StatusMessageUsed(i)

\* An INPUT_REQUIRED result whose status message had the role user, and which
\* also had a history, was turned into the response.
C5_Witness ==
    \E i \in Subs :
        /\ InputRequired(i) /\ ~Truthy(TaskResponse(i).error)
        /\ Val(TaskResult(i).status.message).role = "user"
        /\ Truthy(TaskResult(i).history)
        /\ Response(i).role = "agent"

\* C6: a message submitted with no agent registered and no model client gets
\* the fixed "no agents" response as agent, and its task is COMPLETED with no
\* error attached.
C6_NoAgentNoModel ==
    \A i \in Subs :
        (Started(i) /\ ~Truthy(subs[i].target) /\ ~llm) =>
            /\ Resolved(i)
            /\ Response(i).role = "agent"
            /\ Response(i).parts =
                 <<TextPart(Txt("No agents are currently registered or available.", ""))>>
            /\ BoundTask(i).status.state = TaskState.COMPLETED
            /\ ~Truthy(BoundTask(i).status.error)

SendRaised(i) ==
    /\ Resolved(i) /\ Truthy(subs[i].target)
    /\ Truthy(Val(subs[i].outcome).raised)

\* C7: when an agent is registered and send_task raises, the response is an
\* agent-role text "Failed to communicate with the registered agent: ...",
\* the task state is ERROR and the task's error has code -32603.
C7_SendTaskRaises ==
    \A i \in Subs : SendRaised(i) =>
        /\ Response(i).role = "agent"
        /\ Len(Response(i).parts) = 1
        /\ Response(i).parts[1].type = "text"
        /\ Response(i).parts[1].text =
             Txt("Failed to communicate with the registered agent: {e}",
                 Val(Val(subs[i].outcome).raised))
        /\ BoundTask(i).status.state = TaskState.ERROR
        /\ Truthy(BoundTask(i).status.error)
        /\ Val(BoundTask(i).status.error).code = 0 - 32603

\* send_task raised for a submission routed to a registered agent.
C7_Witness ==
    \E i \in Subs :
        /\ SendRaised(i)
        /\ Val(Val(subs[i].outcome).raised) = "ConnectError"
        /\ BoundTask(i).status.state = TaskState.ERROR

\* C8: every task-send call goes to the agent registered first.
C8_FirstRegisteredWins ==
    \A i \in Subs :
        /\ \A k \in 1..Len(calls[i]) :
             calls[i][k].kind = "agent" =>
                 /\ agents /= <<>>
                 /\ calls[i][k].target = Some(agents[1])
        /\ subs[i].pc = "agent" => subs[i].target = Some(agents[1])

\* Two different agents are registered, the first one has already failed a
\* submission, and another submission is out to it.
C8_Witness ==
    /\ Len(agents) = 2 /\ agents[1] /= agents[2]
    /\ \E i, j \in Subs :
         /\ SendRaised(i)
         /\ subs[j].pc = "agent" /\ subs[j].target = Some(agents[1])

\* C9: after a register_agent call whose discovery failed (timeout,
\* unreachable, bad status, unparseable or invalid payload) the call has
\* raised and _agents is as long as before the call (nothing was appended).
C9_DiscoveryFailure ==
    reg.failed => (Truthy(reg.raised) /\ Len(agents) = reg.before)

\* After a failed registration a submission is out to the agent registered before.
C9_Witness ==
    /\ reg.failed /\ Truthy(reg.raised)
    /\ Len(agents) = 1
    /\ \E i \in Subs : subs[i].pc = "agent" /\ subs[i].target = Some(agents[1])

\* C10: get_pending_messages has one entry per pending message id, in
\* pending order.
C10_SummaryCoversPending ==
    /\ Len(get_pending_messages) = Len(pending)
    /\ \A k \in 1..Len(pending) : get_pending_messages[k][1] = pending[k]

\* C11: a second update_task call with the same task leaves the registry
\* exactly as the first call left it.
C11_UpdateIdempotent ==
    [][\A task \in TaskArguments :
          UpdateTask(task) => update_task(tasks', task) = tasks']_vars

\* update_task has replaced a stored task by a different one with the same
\* id, in a registry that holds that id twice.
C11_Witness ==
    /\ Truthy(upd)
    /\ \E k \in 1..Len(tasks) : tasks[k] = Val(upd)
    /\ \E k, l \in 1..Len(tasks) :
         /\ k < l /\ tasks[k].id = tasks[l].id /\ tasks[k] /= tasks[l]
         /\ tasks[k] = Val(upd)

FirstMatch(ts, id) ==
    CHOOSE i \in 1..Len(ts) : ts[i].id = id /\ \A j \in 1..(i - 1) : ts[j].id /= id

\* C12: update_task with an id no stored task has leaves the registry as it
\* was; with a stored id the length is unchanged, the first stored task with
\* that id becomes the given task and every other entry is unchanged.
C12_UpdateFrame ==
    [][\A task \in TaskArguments :
          UpdateTask(task) =>
             IF \A k \in 1..Len(tasks) : tasks[k].id /= task.id
             THEN tasks' = tasks
             ELSE /\ Len(tasks') = Len(tasks)
                  /\ tasks'[FirstMatch(tasks, task.id)] = task
                  /\ \A k \in 1..Len(tasks) :
                       k /= FirstMatch(tasks, task.id) => tasks'[k] = tasks[k]]_vars

\* update_task was called with an id that a non-empty registry does not hold.
C12_Witness ==
    /\ Truthy(upd)
    /\ tasks /= <<>>
    /\ \A k \in 1..Len(tasks) : tasks[k].id /= Val(upd).id

\* What a resolved submission shows: the stored task's state, error and
\* artifacts, and the response's role and parts.
Yields(i, state, error, artifacts, role, parts) ==
    /\ BoundTask(i).status.state = state
    /\ BoundTask(i).status.error = error
    /\ BoundTask(i).artifacts = artifacts
    /\ Response(i).role = role
    /\ Response(i).parts = parts

FixedText(t) == <<TextPart(Txt(t, ""))>>

\* C13: the task-send reply is interpreted by the first matching branch
\* alone, in the order (a) protocol error, (b) INPUT_REQUIRED with a status
\* message, (c) non-empty history, (d) non-empty artifacts, (e) a result with
\* nothing usable, (f) neither result nor error; the task's state, error and
\* artifacts and the response are those of that branch only.
C13_StrictPrecedence ==
    \A i \in Subs : ViaAgent(i) =>
        LET r == TaskResponse(i) IN
        IF Truthy(r.error)
        THEN Yields(i, TaskState.ERROR, r.error, None, "agent",
                    <<TextPart(Txt("Error communicating with agent: {task_response.error.message}",
                                   Val(r.error).message.fmt))>>)
        ELSE IF ~Truthy(r.result)
        THEN Yields(i, TaskState.COMPLETED, None, None, "agent",
                    FixedText("Agent processed the request but did not return a valid result structure."))
        ELSE LET t == Val(r.result) IN
             IF t.status.state = TaskState.INPUT_REQUIRED /\ Truthy(t.status.message)
             THEN Yields(i, TaskState.INPUT_REQUIRED, None, t.artifacts, "agent",
                         Val(t.status.message).parts)
             ELSE IF t.history /= <<>>
             THEN Yields(i, TaskState.COMPLETED, None, t.artifacts,
                         Last(t.history).role, Last(t.history).parts)
             ELSE IF Truthy(t.artifacts) /\ Val(t.artifacts) /= <<>>
             THEN Yields(i, TaskState.COMPLETED, None, t.artifacts, "agent",
                         IF Truthy(FirstTextPart(Val(t.artifacts)))
                         THEN <<Val(FirstTextPart(Val(t.artifacts)))>>
                         ELSE FixedText("Agent returned data, but not in a displayable text format."))
             ELSE Yields(i, TaskState.COMPLETED, None, None, "agent",
                         FixedText("Agent processed the request but returned no messages or artifacts."))

\* A reply with a protocol error and also a result that has a history and
\* artifacts was reconciled as an error, with none of the result stored.
C13_Witness ==
    \E i \in Subs :
        /\ ViaAgent(i)
        /\ Truthy(TaskResponse(i).error) /\ Truthy(TaskResponse(i).result)
        /\ TaskResult(i).history /= <<>>
        /\ Truthy(TaskResult(i).artifacts) /\ Val(TaskResult(i).artifacts) /= <<>>
        /\ BoundTask(i).status.state = TaskState.ERROR
        /\ BoundTask(i).artifacts = None

\* The position in the event log of the event carrying the given message.
EventOf(actor, content) ==
    CHOOSE k \in 1..Len(events) : events[k].actor = actor /\ events[k].content = content

\* C14: a submission calls at most one collaborator, at most once; the call
\* is made in the step that takes the routing decision and is the model
\* completion when the agent directory is empty in that step and the agent
\* task-send otherwise; no later step, whatever was registered meanwhile,
\* adds a call.
C14_RoutedOnce ==
    [][\A i \in Subs :
          /\ calls[i] /= <<>> => calls'[i] = calls[i]
          /\ Started(i) => calls'[i] = calls[i]
          /\ calls'[i] /= calls[i] =>
               /\ Len(calls'[i]) = 1
               /\ calls'[i][1].kind = (IF agents = <<>> THEN "llm" ELSE "agent")]_vars

\* A submission suspended in the model completion resolved after another
\* submission had been routed to an agent, with the completion as its only call.
C14_Witness ==
    \E i, j \in Subs :
        /\ Resolved(i) /\ Len(calls[i]) = 1 /\ calls[i][1].kind = "llm"
        /\ Len(calls[j]) = 1 /\ calls[j][1].kind = "agent"
        /\ EventOf("host", subs[j].message) < EventOf("agent", Response(i))

Settled == {TaskState.COMPLETED, TaskState.ERROR, TaskState.INPUT_REQUIRED}

\* C15: the task a submission creates is SUBMITTED and stays so while the
\* submission is suspended; a stored task's state changes only from
\* SUBMITTED to COMPLETED, ERROR or INPUT_REQUIRED, so at most once and never
\* back to SUBMITTED; the task of a resolved submission is in one of the three.
C15_TaskStateOnce ==
    /\ [](\A i \in Subs :
            /\ subs[i].pc = "sanitized" =>
                 Last(Intake(Store, subs[i].message).store.tasks).status.state
                     = TaskState.SUBMITTED
            /\ InFlight(i) => BoundTask(i).status.state = TaskState.SUBMITTED
            /\ Resolved(i) => BoundTask(i).status.state \in Settled)
    /\ [][/\ Len(tasks') >= Len(tasks)
          /\ \A k \in 1..Len(tasks) :
               /\ tasks'[k].id = tasks[k].id
               /\ tasks'[k].status.state /= tasks[k].status.state =>
                    /\ tasks[k].status.state = TaskState.SUBMITTED
                    /\ tasks'[k].status.state \in Settled]_vars

\* Two submissions were suspended together and resolved to different states:
\* one task is ERROR, the other COMPLETED with the artifacts of the reply.
C15_Witness ==
    \E i, j \in Subs :
        /\ Resolved(i) /\ Resolved(j)
        /\ Truthy(subs[i].outcome) /\ Truthy(subs[j].outcome)
        /\ BoundTask(i).status.state = TaskState.ERROR
        /\ BoundTask(j).status.state = TaskState.COMPLETED
        /\ Truthy(BoundTask(j).artifacts)
        /\ EventOf("host", subs[j].message) < EventOf("agent", Response(i))
        /\ EventOf("host", subs[i].message) < EventOf("agent", Response(j))

\* C16: when every collaborator call returns or raises, the id of every
\* started submission eventually leaves the pending list; an id that has
\* left the list of a started submission is never put back.
C16_PendingDrains ==
    /\ \A i \in Subs :
         Started(i) ~> (Started(i) /\ ~Contains(pending, subs[i].message_id))
    /\ [][\A i \in Subs :
            (Started(i) /\ ~Contains(pending, subs[i].message_id))
                => ~Contains(pending', subs[i].message_id)]_vars

EventsOf(actor, content) ==
    {k \in 1..Len(events) : events[k].actor = actor /\ events[k].content = content}

\* C17: the event log only grows at its end; every started submission has
\* exactly one host event carrying its message, every submission that has
\* stopped running also has exactly one agent event carrying its response,
\* placed after its host event, and the log holds no other events.
C17_TwoEventsEach ==
    /\ [](/\ \A i \in Subs :
               /\ Started(i) =>
                    Cardinality(EventsOf("host", subs[i].message)) = 1
               /\ (Started(i) /\ ~InFlight(i)) =>
                    /\ Truthy(subs[i].response)
                    /\ Cardinality(EventsOf("agent", Response(i))) = 1
                    /\ EventOf("host", subs[i].message) < EventOf("agent", Response(i))
          /\ Len(events) = 2 * Cardinality({i \in Subs : Started(i) /\ ~InFlight(i)})
                           + Cardinality({i \in Subs : InFlight(i)}))
    /\ [][/\ Len(events') >= Len(events)
          /\ SubSeq(events', 1, Len(events)) = events]_vars

\* The positions of a message in the history of conversation c.
PlacesIn(c, m) ==
    {k \in 1..Len(conversations[c].messages) : conversations[c].messages[k] = m}

\* The stored conversations the metadata of the message of submission i names.
Named(i) ==
    LET md == Val(subs[i].message.metadata) IN
    {c \in 1..Len(conversations) :
        /\ "conversation_id" \in DOMAIN md
        /\ conversations[c].conversation_id = md["conversation_id"]}

\* C18: in every interleaving, the history of a conversation holds the
\* message of every started submission that names it exactly once, the
\* response of every resolved one exactly once and after its own message,
\* and nothing else; a message that names no stored conversation, and its
\* response, are in no conversation's history.
C18_ConversationHistory ==
    /\ \A i \in Subs : Started(i) =>
         \A c \in 1..Len(conversations) :
            IF c \in Named(i)
            THEN /\ Cardinality(PlacesIn(c, subs[i].message)) = 1
                 /\ Resolved(i) =>
                      /\ Cardinality(PlacesIn(c, Response(i))) = 1
                      /\ \A k \in PlacesIn(c, subs[i].message), l \in PlacesIn(c, Response(i)) :
                            k < l
            ELSE /\ PlacesIn(c, subs[i].message) = {}
                 /\ Resolved(i) => PlacesIn(c, Response(i)) = {}
    /\ \A c \in 1..Len(conversations) :
         Len(conversations[c].messages)
            = Cardinality({i \in Subs : Started(i) /\ c \in Named(i)})
              + Cardinality({i \in Subs : Resolved(i) /\ c \in Named(i)})

\* Two submissions for the same conversation were suspended together and the
\* one submitted first was answered last: message, message, response, response.
C18_Witness ==
    \E i, j \in Subs, c \in 1..Len(conversations) :
        /\ i /= j /\ Resolved(i) /\ Resolved(j)
        /\ conversations[c].messages
             = <<subs[i].message, subs[j].message, Response(j), Response(i)>>

NetError == Some(JSONRPCError(InternalErrorCode, Txt("Internal error: No response generated.", "")))

\* C19: whatever the directory, the model client and the collaborator's
\* outcome, routing ends with a response: every outcome a suspended
\* submission can get is routed to one, and no resolved submission carries
\* the response or the error of the safety net.
C19_SafetyNetUnused ==
    \A i \in Subs :
        /\ subs[i].pc = "llm" => \A o \in LlmOutcomes : Truthy(LlmRoute(o).response)
        /\ subs[i].pc = "agent" => \A o \in AgentOutcomes : Truthy(AgentRoute(o).response)
        /\ Resolved(i) =>
             /\ Response(i).parts /=
                  FixedText("Sorry, I encountered an internal error processing your request.")
             /\ BoundTask(i).status.error /= NetError

\* An agent reply with neither a result nor an error, the last arm of the
\* chain, was resolved with the fixed text of that arm.
C19_Witness ==
    \E i \in Subs :
        /\ ViaAgent(i)
        /\ ~Truthy(TaskResponse(i).error) /\ ~Truthy(TaskResponse(i).result)
        /\ BoundTask(i).status.state = TaskState.COMPLETED
        /\ Response(i).parts =
             FixedText("Agent processed the request but did not return a valid result structure.")

\* The ids held by anything but the response of submission i.
OtherIds(i) ==
    {conversations[c].conversation_id : c \in 1..Len(conversations)}
    \cup {MessageId(messages[k]) : k \in 1..Len(messages)}
    \cup {tasks[k].id : k \in 1..Len(tasks)}
    \cup {events[k].id : k \in 1..Len(events)}
    \cup {MessageId(Response(j)) : j \in {j \in Subs : j /= i /\ Resolved(j)}}

\* C20: the metadata of the response of a resolved submission has the keys
\* of the triggering message's metadata, the message's value under every key
\* but message_id, and under message_id an id that is not the message's and
\* not that of any conversation, message, task, event or other response; the
\* triggering message, as logged, as first history entry of its task and as
\* content of its host event, still carries the metadata and the id it had
\* at intake, and no step changes the message of a submission once sanitized.
C20_ResponseMetadata ==
    /\ [](\A i \in Subs : Resolved(i) =>
            LET md == Val(subs[i].message.metadata)
                rmd == Val(Response(i).metadata) IN
            /\ DOMAIN rmd = DOMAIN md
            /\ \A k \in (DOMAIN md) \ {"message_id"} : rmd[k] = md[k]
            /\ rmd["message_id"] /= md["message_id"]
            /\ rmd["message_id"] \notin OtherIds(i)
            /\ md["message_id"] = subs[i].message_id
            /\ BoundTask(i).history[1] = subs[i].message
            /\ BoundTask(i).status.message = Some(subs[i].message)
            /\ events[EventOf("host", subs[i].message)].content = subs[i].message
            /\ \E k \in 1..Len(messages) : messages[k] = subs[i].message)
    /\ [][\A i \in Subs :
            subs[i].pc /= "new" => subs'[i].message = subs[i].message]_vars

\* A message for a stored conversation got a response whose metadata names
\* the same conversation under a new message id.
C20_Witness ==
    \E i \in Subs :
        /\ Resolved(i)
        /\ Named(i) /= {}
        /\ Val(Response(i).metadata)["conversation_id"]
             = Val(subs[i].message.metadata)["conversation_id"]
        /\ MessageId(Response(i)) /= MessageId(subs[i].message)

\* The places <<artifact, part>> of the text parts of a list of artifacts.
TextPlaces(artifacts) ==
    UNION {{<<a, q>> : q \in {q \in 1..Len(artifacts[a].parts) :
                                artifacts[a].parts[q].type = "text"}} :
           a \in 1..Len(artifacts)}

Before(p, r) == p[1] < r[1] \/ (p[1] = r[1] /\ p[2] < r[2])

\* The result of submission i is in the case of the artifacts: no
\* INPUT_REQUIRED status message, an empty history, non-empty artifacts.
ArtifactsCase(i) ==
    /\ ViaAgent(i)
    /\ Truthy(TaskResponse(i).result)
    /\ ~(/\ TaskResult(i).status.state = TaskState.INPUT_REQUIRED
         /\ Truthy(TaskResult(i).status.message))
    /\ TaskResult(i).history = <<>>
    /\ Truthy(TaskResult(i).artifacts) /\ Val(TaskResult(i).artifacts) /= <<>>

\* The response wraps the first text part in artifact order, then part
\* order, or is the fixed text when there is none; the task is COMPLETED and
\* has the artifacts of the result.
ArtifactsUsed(i) ==
    LET arts == Val(TaskResult(i).artifacts)
        places == TextPlaces(arts) IN
    /\ Response(i).role = "agent"
    /\ Response(i).parts =
         (IF places = {}
          THEN FixedText("Agent returned data, but not in a displayable text format.")
          ELSE LET p == CHOOSE p \in places : \A r \in places : r = p \/ Before(p, r)
               IN <<arts[p[1]].parts[p[2]]>>)
    /\ BoundTask(i).status.state = TaskState.COMPLETED
    /\ BoundTask(i).artifacts = TaskResult(i).artifacts

\* C21 as stated: whenever the agent's result has no INPUT_REQUIRED status
\* message, an empty history and non-empty artifacts, the response is the
\* first text part of the artifacts (or the fixed text), the task is
\* COMPLETED and has the result's artifacts.
C21_AsStated == \A i \in Subs : ArtifactsCase(i) => ArtifactsUsed(i)

\* C21: when the task-send response carries no protocol error and its result
\* has no INPUT_REQUIRED status message, an empty history and non-empty
\* artifacts, the response is the first text part found scanning the
\* artifacts in order and the parts of each in order, or the fixed text when
\* no artifact has a text part; the task is COMPLETED and has the result's
\* artifacts.
C21_ArtifactsResponse ==
    \A i \in Subs :
        (ArtifactsCase(i) /\ ~Truthy(TaskResponse(i).error)) => ArtifactsUsed(i)

\* A result whose first artifact has no parts and whose second has a data
\* part before two text parts was answered with the first of the text parts.
C21_Witness ==
    \E i \in Subs :
        /\ ArtifactsCase(i) /\ ~Truthy(TaskResponse(i).error)
        /\ Len(Val(TaskResult(i).artifacts)) = 3
        /\ Val(TaskResult(i).artifacts)[1].parts = <<>>
        /\ Response(i).parts = <<Val(TaskResult(i).artifacts)[2].parts[2]>>
        /\ BoundTask(i).artifacts = TaskResult(i).artifacts

\* C22: in every state between suspension points, for every message id
\* bound to a task, the id is pending exactly when the task's history is the
\* triggering message alone and absent exactly when the history has two
\* entries; so for no pending id does get_pending_messages get to the arm
\* that reports the text of a response.
C22_PendingIffOneEntry ==
    /\ \A message_id \in DOMAIN task_map :
         LET task == TaskById(tasks, task_map[message_id]) IN
         /\ Contains(pending, message_id) <=>
              (Len(task.history) = 1 /\ MessageId(task.history[1]) = message_id)
         /\ ~Contains(pending, message_id) <=> Len(task.history) = 2
    /\ \A k \in 1..Len(pending) : ~ReportsResponseText(pending[k])

\* One submission was answered while the other is still suspended: the
\* first id is absent with a history of two, the second pending with one.
C22_Witness ==
    \E i, j \in Subs :
        /\ Resolved(i) /\ InFlight(j)
        /\ ~Contains(pending, subs[i].message_id)
        /\ Len(BoundTask(i).history) = 2
        /\ Truthy(Response(i).parts)
        /\ pending = <<subs[j].message_id>>
        /\ Len(BoundTask(j).history) = 1

====
